---- MODULE Spec2Model ----
(***************************************************************************)
(* Model of the MCP orchestrator client (src/index.ts): the tool registry   *)
(* (servers map + flattened tool list), the processQuery round protocol,    *)
(* and main's startup / query loop / cleanup.                               *)
(*                                                                          *)
(* Text values (names, contents, JSON) are sequences of one-character       *)
(* strings, so that sanitising, splitting and replacing are computed.       *)
(* An optional value (null/undefined or a value) is <<>> or <<v>>.          *)
(***************************************************************************)
EXTENDS Integers, Sequences, FiniteSets, TLC

\* ------------------------------------------------------------------ bounds
MaxServers == 2      \* registrations performed during startup
MaxTools   == 2      \* tools one backend lists
MaxCalls   == 2      \* tool calls in one model response
MaxQueries == 2      \* queries typed into the loop
MaxSlots   == 2      \* processQuery invocations alive at once

\* ------------------------------------------------------------------- text
None == <<>>
Some(v) == <<v>>

\* the characters of [a-zA-Z0-9_-] that the inputs use
SafeChars == {"a", "b", "t", "_", "-"}

\* String.prototype.replace(/[^a-zA-Z0-9_-]/g, "_")
Sanitize(s) == [i \in 1..Len(s) |-> IF s[i] \in SafeChars THEN s[i] ELSE "_"]

\* `${name}_${tool.name}`.replace(/[^a-zA-Z0-9_-]/g, "_")
QualifiedName(name, tool) == Sanitize(name \o <<"_">> \o tool)

\* first index at which pat occurs in s, 0 when it does not (String.indexOf + 1)
IndexOf(s, pat) ==
  LET hits == {i \in 1..(Len(s) - Len(pat) + 1) : SubSeq(s, i, i + Len(pat) - 1) = pat}
  IN  IF hits = {} THEN 0 ELSE CHOOSE i \in hits : \A j \in hits : i <= j

\* s.split("_")[0]
SplitFirst(s) ==
  LET k == IndexOf(s, <<"_">>)
  IN  IF k = 0 THEN s ELSE SubSeq(s, 1, k - 1)

\* s.replace(pat, ""): removes the first occurrence of pat only
ReplaceFirst(s, pat) ==
  LET k == IndexOf(s, pat)
  IN  IF k = 0 THEN s ELSE SubSeq(s, 1, k - 1) \o SubSeq(s, k + Len(pat), Len(s))

\* ------------------------------------------------------------ input sets
\* server names: plain, containing the separator, containing a sanitised char
ServerNames == { <<"a">>, <<"b">>, <<"a", "_", "b">>, <<"a", ".">> }
\* native tool names
ToolNames == { <<"t">>, <<"b", "_", "t">>, <<"t", ".">> }

RECURSIVE SeqsNoRepeat(_, _)
SeqsNoRepeat(S, n) ==
  IF n = 0 THEN { <<>> }
  ELSE LET shorter == SeqsNoRepeat(S, n - 1)
       IN  shorter \cup { Append(q, x) : q \in {r \in shorter : Len(r) = n - 1},
                                          x \in S }
\* tool lists of at most n tools a backend may answer listTools with
\* (native names are distinct)
ToolListsOf(T, n) ==
  { q \in SeqsNoRepeat(T, n) : \A i, j \in 1..Len(q) : i /= j => q[i] /= q[j] }

ToolLists == ToolListsOf(ToolNames, MaxTools)

\* the inputs of the query protocol runs: a plain name and one holding the
\* separator, backends listing at most one tool
ProtocolServerNames == { <<"a">>, <<"a", "_", "b">> }
ProtocolToolLists == ToolListsOf({ <<"t">>, <<"b", "_", "t">> }, 1)
\* the inputs of the routing runs: every name shape, one tool per backend
RoutingToolLists == ToolListsOf(ToolNames, 1)

\* ----------------------------------------------------------------- state
VARIABLES
  llm,           \* the provider adapter loadConfig constructed: "gpt" or "claude"
  servers,       \* Map<string, MCPServer> in insertion order: seq of bindings
  allFunctions,  \* flattened tool list offered to the model
  conns,         \* conns[c]: state of the c-th connection ever opened
  advertised,    \* advertised[c]: native tool list backend c answered
  regLog,        \* names of the successful registrations, in order
  configNames,   \* keys of the config object iterated so far
  mainpc,        \* where main is
  queries,       \* number of processQuery invocations started
  frames,        \* frames[s]: locals of the processQuery invocation in slot s
  closeIdx       \* cleanup: position in servers.values()

vars == <<llm, servers, allFunctions, conns, advertised, regLog, configNames,
          mainpc, queries, frames, closeIdx>>

Slots == 1..MaxSlots

\* ---------------------------------------------------------- Map helpers
\* position of key k in map m, 0 when absent (Map.prototype.has / get)
MapIndex(m, k) ==
  LET hits == {i \in 1..Len(m) : m[i].name = k}
  IN  IF hits = {} THEN 0 ELSE CHOOSE i \in hits : TRUE

MapHas(m, k) == MapIndex(m, k) /= 0

\* Map.prototype.set: replaces the value of an existing key in place,
\* otherwise appends the entry
MapSet(m, k, v) ==
  IF MapHas(m, k) THEN [m EXCEPT ![MapIndex(m, k)] = v] ELSE Append(m, v)

\* ------------------------------------------------------------ descriptors
\* toolsResult.tools.map(tool => ({type, function: {name, description, ...}}))
\* origin is bookkeeping only: the connection whose registration built it
MakeFunctions(name, tools, c) ==
  [i \in 1..Len(tools) |->
     [name |-> QualifiedName(name, tools[i]), description |-> name, origin |-> c]]

\* the body shared by registerServer and the loop of registerServersFromConfig
\* after connect and listTools succeeded on a fresh connection
RegistryAfter(name, tools) ==
  LET c == Len(conns) + 1
      functions == MakeFunctions(name, tools, c)
  IN  /\ conns' = Append(conns, "open")
      /\ advertised' = Append(advertised, tools)
      /\ servers' = MapSet(servers, name, [name |-> name, client |-> c, functions |-> functions])
      /\ allFunctions' = allFunctions \o functions
      /\ regLog' = Append(regLog, name)

\* ------------------------------------------------------- external inputs
\* the system prompt and the texts a user may type
SystemPrompt == <<"s">>
QueryTexts == { <<"q">> }

\* tool-call argument payloads the model may send
ArgTexts == { <<"{", "}">>, <<"{">> }

\* JSON.parse on the payloads above: <<value>> when it parses, <<>> when it throws
JSONParse(s) == IF s = <<"{", "}">> THEN Some([type |-> "object"]) ELSE None

\* a name no backend can contribute (it has no separator)
UnknownName == <<"n", "o">>

\* content the model may answer with: null or a text
Contents == { None, Some(<<"h", "i">>) }

\* toolResult.content as a backend may return it: a string or a structured value
ToolContents ==
  { [type |-> "string", v |-> <<"r">>],
    [type |-> "object", v |-> <<"r">>] }

\* JSON.stringify on a string value and on the structured value above
JSONStringify(c) ==
  IF c.type = "string" THEN <<"\"">> \o c.v \o <<"\"">>
  ELSE <<"[">> \o c.v \o <<"]">>

\* typeof content === "string" ? content : JSON.stringify(content ?? "")
ContentText(c) ==
  IF c.type = "string" THEN c.v
  ELSE JSONStringify(IF c.type = "undefined" THEN [type |-> "string", v |-> <<>>] ELSE c)

\* x ?? ""
OrEmpty(x) == IF x = None THEN <<>> ELSE x[1]

RECURSIVE SeqsUpTo(_, _)
SeqsUpTo(S, n) ==
  IF n = 0 THEN { <<>> }
  ELSE LET shorter == SeqsUpTo(S, n - 1)
       IN  shorter \cup { Append(q, x) : q \in {r \in shorter : Len(r) = n - 1},
                                          x \in S }

\* the tool-call lists a model may return when offered the registry's names:
\* the k-th call of a response carries the provider-assigned id k
ToolCallLists(argTexts, n) ==
  LET names == { allFunctions[i].name : i \in 1..Len(allFunctions) } \cup { UnknownName }
      raw == SeqsUpTo(names \X argTexts, n)
  IN  { [k \in 1..Len(q) |-> [id |-> k, name |-> q[k][1], arguments |-> q[k][2]]] : q \in raw }

\* result.choices[0].message of the first model call
Responses == [content : Contents, tool_calls : ToolCallLists(ArgTexts, MaxCalls)]
\* final.choices[0].message: the second call may still come back with a
\* request, here for the first tool of the registry (an unknown one when empty)
FinalResponses ==
  LET n == IF allFunctions = <<>> THEN UnknownName ELSE allFunctions[1].name
  IN  [content : Contents,
       tool_calls : { <<>>, << [id |-> 1, name |-> n, arguments |-> <<"{", "}">>] >> }]
\* the routing runs: one well-formed call per response, or none
RoutingResponses == [content : { Some(<<"h", "i">>) }, tool_calls : ToolCallLists({ <<"{", "}">> }, 1)]
\* and any result content, a missing one included
RoutingToolContents == ToolContents \cup { [type |-> "undefined", v |-> <<>>] }

\* --------------------------------------------------------- provider adapters
Providers == {"gpt", "claude"}

\* what the OpenAI endpoint answers when the model produced message r
GPTNative(r) == [choices |-> << [message |-> r] >>]

\* a content block of an Anthropic answer (unused fields left empty)
TextBlock(text) == [type |-> "text", text |-> text, id |-> 0, name |-> <<>>, input |-> <<>>]
ToolUseBlock(call) ==
  [type |-> "tool_use", text |-> <<>>, id |-> call.id, name |-> call.name,
   input |-> call.arguments]

\* what the Anthropic endpoint answers when the model produced message r:
\* a text block when there is text, then one tool_use block per request
ClaudeNative(r) ==
  [content |-> (IF r.content = None THEN <<>> ELSE << TextBlock(r.content[1]) >>) \o
               [k \in 1..Len(r.tool_calls) |-> ToolUseBlock(r.tool_calls[k])]]

\* isTextBlock(block)
IsTextBlock(b) == b.type = "text"

\* GPT.chat: the completion is returned as received
GPTChat(res) == res

\* Claude.chat: content is the text of the first text block (or ""),
\* tool_calls is the empty list
ClaudeChat(res) ==
  LET hits == {k \in 1..Len(res.content) : IsTextBlock(res.content[k])}
      firstTextBlock ==
        IF hits = {} THEN None
        ELSE Some(res.content[CHOOSE k \in hits : \A j \in hits : k <= j])
  IN  [choices |-> << [message |->
         [content |-> Some(IF firstTextBlock = None THEN <<>> ELSE firstTextBlock[1].text),
          tool_calls |-> <<>>]] >>]

\* the answer of the configured provider on the wire, and this.llm.chat on it
OnTheWire(r) == IF llm = "gpt" THEN GPTNative(r) ELSE ClaudeNative(r)
LLMChat(res) == IF llm = "gpt" THEN GPTChat(res) ELSE ClaudeChat(res)

\* ------------------------------------------------------------ processQuery
NoFrame ==
  [pc |-> "free", q |-> 0, query |-> None, messages |-> <<>>, response |-> None, final |-> None,
   natives |-> <<>>, i |-> 0, chats |-> <<>>, invocations |-> <<>>, answer |-> None, error |-> None]

\* a message of the history; q tags the invocation that created it
Msg(role, content, tool_calls, tool_call_id, q) ==
  [role |-> role, content |-> content, tool_calls |-> tool_calls,
   tool_call_id |-> tool_call_id, q |-> q]

\* variant of SeedMessages: the history is kept across invocations, so a
\* later query starts with a message of the one before it
SeedMessages_Stale(query, q) ==
  (IF q > 1 THEN << Msg("user", Some(query), <<>>, None, q - 1) >> ELSE <<>>) \o
  << Msg("system", Some(SystemPrompt), <<>>, None, q),
     Msg("user", Some(query), <<>>, None, q) >>

\* const messages = [{role: "system", ...}, {role: "user", content: query}]
SeedMessages(query, q) ==
  << Msg("system", Some(SystemPrompt), <<>>, None, q),
     Msg("user", Some(query), <<>>, None, q) >>

\* one llm.chat(...) call as the provider adapter receives it
Chat(messages, tools, tool_choice) ==
  [messages |-> messages, tools |-> tools, tool_choice |-> tool_choice]

\* this.allFunctions.find(f => f.function.name === n): index, 0 when undefined
FindFunction(n) ==
  LET hits == {k \in 1..Len(allFunctions) : allFunctions[k].name = n}
  IN  IF hits = {} THEN 0 ELSE CHOOSE k \in hits : \A j \in hits : k <= j

\* variant of Throw: the error is recorded but control does not leave
Throw_Continue(f, kind) == [f EXCEPT !.error = Some(kind)]

Throw(f, kind) == [f EXCEPT !.pc = "failed", !.error = Some(kind)]

\* variant of Dispatch: the owner is parsed from the requested name without
\* looking the descriptor up first
Dispatch_BySplit(f) ==
  LET toolCall == f.response[1].tool_calls[f.i]
      serverName == SplitFirst(toolCall.name)
  IN  IF ~MapHas(servers, serverName)
      THEN [f EXCEPT !.pc = "failed", !.error = Some("Unknown server")]
      ELSE
        LET server == servers[MapIndex(servers, serverName)]
            toolName == ReplaceFirst(toolCall.name, serverName \o <<"_">>)
            args == JSONParse(toolCall.arguments)
        IN  IF args = None
            THEN [f EXCEPT !.pc = "failed", !.error = Some("SyntaxError")]
            ELSE [f EXCEPT !.pc = "awaitTool",
                           !.invocations = Append(@,
                              [client |-> server.client, name |-> toolName,
                               arguments |-> args[1], call |-> f.i,
                               result |-> None])]

\* one iteration of the for-loop over response.tool_calls, from the lookup of
\* toolMeta up to the point where callTool has been issued (or a throw);
\* an invocation records the request, the call it serves and, once the
\* backend answered, toolResult.content
Dispatch(f) ==
  LET toolCall == f.response[1].tool_calls[f.i]
      k == FindFunction(toolCall.name)
  IN  IF k = 0 THEN Throw(f, "Unknown tool name")
      ELSE
        LET serverName == SplitFirst(allFunctions[k].name)
        IN  IF ~MapHas(servers, serverName) THEN Throw(f, "Unknown server")
            ELSE
              LET server == servers[MapIndex(servers, serverName)]
                  toolName == ReplaceFirst(allFunctions[k].name, serverName \o <<"_">>)
                  args == JSONParse(toolCall.arguments)
              IN  IF args = None THEN Throw(f, "SyntaxError")
                  ELSE [f EXCEPT !.pc = "awaitTool",
                                 !.invocations = Append(@,
                                    [client |-> server.client, name |-> toolName,
                                     arguments |-> args[1], call |-> f.i,
                                     result |-> None])]

\* variant of FinalChat: the second model call is offered the tool set again
FinalChat_WithTools(f) ==
  [f EXCEPT !.pc = "awaitFinal", !.chats = Append(@, Chat(f.messages, allFunctions, "auto"))]

\* the second model call: this.llm.chat(messages), tools and tool_choice
\* take the adapter's defaults ([] and "auto")
FinalChat(f) ==
  [f EXCEPT !.pc = "awaitFinal", !.chats = Append(@, Chat(f.messages, <<>>, "auto"))]

\* processQuery(query) up to its first await: seed history, first model call
\* variant of ProcessQueryStart: the history is a field of the orchestrator,
\* an invocation that starts while another is suspended pushes onto the
\* messages already there
ProcessQueryStart_Shared(s, query) ==
  /\ frames[s].pc = "free"
  /\ queries < MaxQueries
  /\ queries' = queries + 1
  /\ LET busy == {o \in Slots : frames[o].pc \in {"awaitChat", "awaitTool", "awaitFinal"}}
         held == IF busy = {} THEN <<>> ELSE frames[CHOOSE o \in busy : TRUE].messages
         messages == held \o SeedMessages(query, queries + 1)
     IN  frames' = [frames EXCEPT ![s] =
           [NoFrame EXCEPT !.pc = "awaitChat", !.q = queries + 1,
                           !.query = Some(query),
                           !.messages = messages,
                           !.chats = << Chat(messages, allFunctions, "auto") >>]]

ProcessQueryStart(s, query) ==
  /\ frames[s].pc = "free"
  /\ queries < MaxQueries
  /\ queries' = queries + 1
  /\ LET messages == SeedMessages(query, queries + 1)
     IN  frames' = [frames EXCEPT ![s] =
           [NoFrame EXCEPT !.pc = "awaitChat", !.q = queries + 1,
                           !.query = Some(query),
                           !.messages = messages,
                           !.chats = << Chat(messages, allFunctions, "auto") >>]]

\* variant of AfterChat: no early return, a direct answer is sent through
\* the second model call as well
AfterChat_NoEarlyReturn(f, r) ==
  IF Len(r.tool_calls) = 0
  THEN FinalChat([f EXCEPT !.response = Some(r)])
  ELSE Dispatch([f EXCEPT !.response = Some(r), !.i = 1])

\* variant of AfterChat: the calls of the response are fanned out, the
\* second is issued while the first is still pending
AfterChat_Parallel(f, r) ==
  IF Len(r.tool_calls) = 0
  THEN [f EXCEPT !.pc = "returned", !.response = Some(r), !.answer = Some(OrEmpty(r.content))]
  ELSE LET g == Dispatch([f EXCEPT !.response = Some(r), !.i = 1])
       IN  IF g.pc = "awaitTool" /\ Len(r.tool_calls) >= 2
           THEN LET h == Dispatch([g EXCEPT !.i = 2])
                IN  IF h.pc = "awaitTool" THEN [h EXCEPT !.i = 1] ELSE g
           ELSE g

\* the first model call resolves with response r
AfterChat(f, r) ==
  IF Len(r.tool_calls) = 0
  THEN [f EXCEPT !.pc = "returned", !.response = Some(r), !.answer = Some(OrEmpty(r.content))]
  ELSE Dispatch([f EXCEPT !.response = Some(r), !.i = 1])

ChatReturns(s, R) ==
  /\ frames[s].pc = "awaitChat"
  /\ \E r \in R :
       LET result == LLMChat(OnTheWire(r))
       IN  frames' = [frames EXCEPT ![s] =
             AfterChat([@ EXCEPT !.natives = Append(@, OnTheWire(r))],
                       result.choices[1].message)]
  /\ UNCHANGED <<llm, servers, allFunctions, conns, advertised, regLog, configNames,
                 mainpc, queries, closeIdx>>

\* a model call rejects (network, auth, quota): the error propagates
ChatFails(s) ==
  /\ frames[s].pc \in {"awaitChat", "awaitFinal"}
  /\ frames' = [frames EXCEPT ![s] = Throw(@, "ProviderError")]
  /\ UNCHANGED <<llm, servers, allFunctions, conns, advertised, regLog, configNames,
                 mainpc, queries, closeIdx>>

\* variant of AfterTool: the assistant message carries response.tool_calls
\* whole instead of the single call
AfterTool_AllCalls(f, c) ==
  LET toolCall == f.response[1].tool_calls[f.i]
      pushed == f.messages \o
                  << Msg("assistant", None, f.response[1].tool_calls, None, f.q),
                     Msg("tool", Some(ContentText(c)), <<>>, Some(toolCall.id), f.q) >>
      g == [f EXCEPT !.messages = pushed, !.i = f.i + 1,
                     !.invocations[Len(f.invocations)].result = Some(c)]
  IN  IF g.i <= Len(f.response[1].tool_calls) THEN Dispatch(g) ELSE FinalChat(g)

\* callTool resolved with toolResult.content = c: push the two messages, then
\* the next iteration of the loop or, after the last call, the second model call
AfterTool(f, c) ==
  LET toolCall == f.response[1].tool_calls[f.i]
      content == ContentText(c)
      pushed == f.messages \o
                  << Msg("assistant", None, <<toolCall>>, None, f.q),
                     Msg("tool", Some(content), <<>>, Some(toolCall.id), f.q) >>
      g == [f EXCEPT !.messages = pushed, !.i = f.i + 1,
                     !.invocations[Len(f.invocations)].result = Some(c)]
  IN  IF g.i <= Len(f.response[1].tool_calls) THEN Dispatch(g) ELSE FinalChat(g)

\* variant of ToolReturns: the descriptor used is taken off the flattened list
ToolReturns_Consumes(s, C) ==
  /\ frames[s].pc = "awaitTool"
  /\ \E c \in C : frames' = [frames EXCEPT ![s] = AfterTool(@, c)]
  /\ allFunctions' = Tail(allFunctions)
  /\ UNCHANGED <<llm, servers, conns, advertised, regLog, configNames,
                 mainpc, queries, closeIdx>>

ToolReturns(s, C) ==
  /\ frames[s].pc = "awaitTool"
  /\ \E c \in C : frames' = [frames EXCEPT ![s] = AfterTool(@, c)]
  /\ UNCHANGED <<llm, servers, allFunctions, conns, advertised, regLog, configNames,
                 mainpc, queries, closeIdx>>

\* callTool rejects: the error propagates out of processQuery
ToolFails(s) ==
  /\ frames[s].pc = "awaitTool"
  /\ frames' = [frames EXCEPT ![s] = Throw(@, "ToolError")]
  /\ UNCHANGED <<llm, servers, allFunctions, conns, advertised, regLog, configNames,
                 mainpc, queries, closeIdx>>

\* the second model call resolves: return final.choices[0].message?.content ?? ""
\* variant of AfterFinal: a second response that requests tools is dispatched
\* like the first, and the model is asked again
AfterFinal_Loop(f, r) ==
  IF r.tool_calls = <<>>
  THEN [f EXCEPT !.pc = "returned", !.final = Some(r), !.answer = Some(OrEmpty(r.content))]
  ELSE Dispatch([f EXCEPT !.response = Some(r), !.i = 1])

\* variant of AfterFinal: text that came with the tool calls is the answer
AfterFinal_KeepsText(f, r) ==
  [f EXCEPT !.pc = "returned", !.final = Some(r),
            !.answer = IF OrEmpty(f.response[1].content) /= <<>>
                       THEN Some(OrEmpty(f.response[1].content))
                       ELSE Some(OrEmpty(r.content))]

AfterFinal(f, r) ==
  [f EXCEPT !.pc = "returned", !.final = Some(r), !.answer = Some(OrEmpty(r.content))]

FinalReturns(s, R) ==
  /\ frames[s].pc = "awaitFinal"
  /\ \E r \in R :
       LET final == LLMChat(OnTheWire(r))
       IN  frames' = [frames EXCEPT ![s] =
             AfterFinal([@ EXCEPT !.natives = Append(@, OnTheWire(r))],
                        final.choices[1].message)]
  /\ UNCHANGED <<llm, servers, allFunctions, conns, advertised, regLog, configNames,
                 mainpc, queries, closeIdx>>

\* ------------------------------------------------------------ registration
\* orchestrator.registerServer(name, scriptPath), connect and listTools succeed.
\* main registers from the config only; the method is public, and a client of
\* the class may call it under any name before queries start
RegisterServer(name, tools) ==
  /\ mainpc = "register"
  /\ Len(regLog) < MaxServers
  /\ RegistryAfter(name, tools)
  /\ UNCHANGED <<llm, configNames, mainpc, queries, frames, closeIdx>>

\* one iteration of the loop of registerServersFromConfig: the keys of the
\* parsed config object are pairwise distinct
RegisterFromConfig(name, tools) ==
  /\ mainpc = "register"
  /\ Len(regLog) < MaxServers
  /\ name \notin configNames
  /\ configNames' = configNames \cup {name}
  /\ RegistryAfter(name, tools)
  /\ UNCHANGED <<llm, mainpc, queries, frames, closeIdx>>

\* variant of RegisterFromConfigFails: best effort, the failing backend is
\* skipped and the loop goes on with the next entry
RegisterFromConfigFails_BestEffort(name, opened) ==
  /\ mainpc = "register"
  /\ Len(regLog) < MaxServers
  /\ name \notin configNames
  /\ configNames' = configNames \cup {name}
  /\ conns' = IF opened THEN Append(conns, "open") ELSE conns
  /\ advertised' = IF opened THEN Append(advertised, <<>>) ELSE advertised
  /\ UNCHANGED <<llm, servers, allFunctions, regLog, mainpc, queries, frames, closeIdx>>

\* an iteration whose connect (opened = FALSE) or listTools (opened = TRUE)
\* rejects: registerServersFromConfig rejects, and main with it, before the try
RegisterFromConfigFails(name, opened) ==
  /\ mainpc = "register"
  /\ Len(regLog) < MaxServers
  /\ name \notin configNames
  /\ configNames' = configNames \cup {name}
  /\ conns' = IF opened THEN Append(conns, "open") ELSE conns
  /\ advertised' = IF opened THEN Append(advertised, <<>>) ELSE advertised
  /\ mainpc' = "rejected"
  /\ UNCHANGED <<llm, servers, allFunctions, regLog, queries, frames, closeIdx>>

\* registerServersFromConfig resolved: main creates the readline interface
\* and enters the try block
StartupDone ==
  /\ mainpc = "register"
  /\ mainpc' = "prompt"
  /\ configNames' = {}
  /\ UNCHANGED <<llm, servers, allFunctions, conns, advertised, regLog,
                 queries, frames, closeIdx>>

\* -------------------------------------------------------------------- main
\* rl.question answered with a query: await orchestrator.processQuery(message)
MainQuery ==
  /\ mainpc = "prompt"
  /\ \E query \in QueryTexts : ProcessQueryStart(1, query)
  /\ mainpc' = "awaitQuery"
  /\ UNCHANGED <<llm, servers, allFunctions, conns, advertised, regLog, configNames, closeIdx>>

\* processQuery resolved: console.log(response), next turn of while (true)
MainPrints ==
  /\ mainpc = "awaitQuery"
  /\ frames[1].pc = "returned"
  /\ frames' = [frames EXCEPT ![1] = NoFrame]
  /\ mainpc' = "prompt"
  /\ UNCHANGED <<llm, servers, allFunctions, conns, advertised, regLog, configNames,
                 queries, closeIdx>>

\* processQuery rejected (src/index.ts): the exception leaves the loop into finally
MainQueryThrows ==
  /\ mainpc = "awaitQuery"
  /\ frames[1].pc = "failed"
  /\ frames' = [frames EXCEPT ![1] = NoFrame]
  /\ mainpc' = "cleanup"
  /\ closeIdx' = 1
  /\ UNCHANGED <<llm, servers, allFunctions, conns, advertised, regLog, configNames, queries>>

\* processQuery rejected (part_001): the catch inside the loop logs the error
\* and the loop goes on
MainQueryCaught ==
  /\ mainpc = "awaitQuery"
  /\ frames[1].pc = "failed"
  /\ frames' = [frames EXCEPT ![1] = NoFrame]
  /\ mainpc' = "prompt"
  /\ UNCHANGED <<llm, servers, allFunctions, conns, advertised, regLog, configNames,
                 queries, closeIdx>>

\* the user typed quit: break, then finally
MainQuit ==
  /\ mainpc = "prompt"
  /\ mainpc' = "cleanup"
  /\ closeIdx' = 1
  /\ UNCHANGED <<llm, servers, allFunctions, conns, advertised, regLog, configNames,
                 queries, frames>>

\* cleanup(): for (const server of this.servers.values()) await server.client.close()
\* a close that resolves
CleanupCloses ==
  /\ mainpc = "cleanup"
  /\ closeIdx <= Len(servers)
  /\ conns' = [conns EXCEPT ![servers[closeIdx].client] = "closed"]
  /\ closeIdx' = closeIdx + 1
  /\ UNCHANGED <<llm, servers, allFunctions, advertised, regLog, configNames, mainpc,
                 queries, frames>>

\* a close that rejects: cleanup rejects inside finally, main rejects,
\* process.exit(0) is not reached and the process ends on the unhandled rejection
CleanupCloseFails ==
  /\ mainpc = "cleanup"
  /\ closeIdx <= Len(servers)
  /\ mainpc' = "rejected"
  /\ UNCHANGED <<llm, servers, allFunctions, conns, advertised, regLog, configNames,
                 queries, frames, closeIdx>>

\* cleanup resolved: process.exit(0)
MainExits ==
  /\ mainpc = "cleanup"
  /\ closeIdx > Len(servers)
  /\ mainpc' = "exited"
  /\ UNCHANGED <<llm, servers, allFunctions, conns, advertised, regLog, configNames,
                 queries, frames, closeIdx>>

\* ----------------------------------------------------------- specification
Init ==
  /\ llm \in Providers
  /\ servers = <<>>
  /\ allFunctions = <<>>
  /\ conns = <<>>
  /\ advertised = <<>>
  /\ regLog = <<>>
  /\ configNames = {}
  /\ mainpc = "register"
  /\ queries = 0
  /\ frames = [s \in Slots |-> NoFrame]
  /\ closeIdx = 0

Registration(names, lists) ==
  \/ \E name \in names, tools \in lists : RegisterServer(name, tools)
  \/ \E name \in names, tools \in lists : RegisterFromConfig(name, tools)
  \/ \E name \in names, opened \in BOOLEAN : RegisterFromConfigFails(name, opened)
  \/ StartupDone

Query(R, C, F) ==
  \E s \in Slots :
    \/ ChatReturns(s, R)
    \/ ChatFails(s)
    \/ ToolReturns(s, C)
    \/ ToolFails(s)
    \/ FinalReturns(s, F)

\* main of src/index.ts
Main ==
  \/ MainQuery
  \/ MainPrints
  \/ MainQueryThrows
  \/ MainQuit
  \/ CleanupCloses
  \/ CleanupCloseFails
  \/ MainExits

\* main of src/unnamed/part_001: the same, but a failed query is caught
\* inside the loop
Part001Main ==
  \/ MainQuery
  \/ MainPrints
  \/ MainQueryCaught
  \/ MainQuit
  \/ CleanupCloses
  \/ CleanupCloseFails
  \/ MainExits

\* the query protocol on small registries
Next ==
  \/ Registration(ProtocolServerNames, ProtocolToolLists)
  \/ Query(Responses, ToolContents, FinalResponses)
  \/ Main

Spec == Init /\ [][Next]_vars

\* the same protocol driven by the main of part_001
Part001Next ==
  \/ Registration(ProtocolServerNames, ProtocolToolLists)
  \/ Query(Responses, ToolContents, FinalResponses)
  \/ Part001Main

\* part_001 talks to the OpenAI endpoint directly
Part001Init == Init /\ llm = "gpt"

SpecPart001 == Part001Init /\ [][Part001Next]_vars

\* registration alone, over every name shape and tool list
RegistryNext ==
  \/ \E name \in ServerNames, tools \in ToolLists : RegisterServer(name, tools)
  \/ \E name \in ServerNames, tools \in ToolLists : RegisterFromConfig(name, tools)

\* no model call is made, the provider plays no part
RegistryInit == Init /\ llm = "gpt"

SpecRegistry == RegistryInit /\ [][RegistryNext]_vars

\* routing of single calls over every name shape
RoutingNext ==
  \/ Registration(ServerNames, RoutingToolLists)
  \/ Query(RoutingResponses, RoutingToolContents, FinalResponses)
  \/ Main

SpecRouting == Init /\ [][RoutingNext]_vars

\* a caller that does not await: processQuery is called again on the same
\* orchestrator while earlier invocations are suspended in a provider call
\* or a tool invocation (the lowest free frame holds the new invocation)
ClientQuery(s, query) ==
  /\ mainpc = "prompt"
  /\ \A o \in Slots : o < s => frames[o].pc /= "free"
  /\ ProcessQueryStart(s, query)
  /\ UNCHANGED <<llm, servers, allFunctions, conns, advertised, regLog, configNames,
                 mainpc, closeIdx>>

\* overlapping invocations on one registered backend with one tool
ConcurrentServerNames == { <<"a">> }
ConcurrentToolLists == { << <<"t">> >> }

ConcurrentNext ==
  \/ \E name \in ConcurrentServerNames, tools \in ConcurrentToolLists :
       RegisterServer(name, tools)
  \/ StartupDone
  \/ \E s \in Slots, query \in QueryTexts : ClientQuery(s, query)
  \/ Query(RoutingResponses, ToolContents, FinalResponses)

ConcurrentInit == Init /\ llm = "gpt"

SpecConcurrent == ConcurrentInit /\ [][ConcurrentNext]_vars

\* the protocol on one backend with one tool, with well-formed arguments,
\* when every provider call and every tool invocation that is awaited
\* eventually returns or fails
FairResponses == [content : Contents, tool_calls : ToolCallLists({ <<"{", "}">> }, MaxCalls)]
FairToolContents == { [type |-> "string", v |-> <<"r">>] }

FairQuery == Query(FairResponses, FairToolContents, FinalResponses)

FairNext ==
  \/ \E name \in ConcurrentServerNames, tools \in ConcurrentToolLists :
       RegisterServer(name, tools)
  \/ StartupDone
  \/ FairQuery
  \/ Main

SpecFair == Init /\ [][FairNext]_vars /\ WF_vars(FairQuery)

TypeOK ==
  /\ mainpc \in {"register", "prompt", "awaitQuery", "cleanup", "exited", "rejected"}
  /\ queries \in 0..MaxQueries
  /\ Len(regLog) <= MaxServers
  /\ \A s \in Slots : frames[s].pc \in {"free", "awaitChat", "awaitTool", "awaitFinal", "returned", "failed"}

\* ================================================================== claims
NoRepeats(q) == \A i, j \in 1..Len(q) : i /= j => q[i] /= q[j]

QualifiedNames == [k \in 1..Len(allFunctions) |-> allFunctions[k].name]

\* the binding of servers that still holds connection c, 0 when none does
BindingOf(c) ==
  LET hits == {i \in 1..Len(servers) : servers[i].client = c}
  IN  IF hits = {} THEN 0 ELSE CHOOSE i \in hits : TRUE

\* C1: after successful registrations under pairwise distinct server names,
\* no two descriptors of allFunctions carry the same qualified name.
C1_QualifiedNamesUnique ==
  NoRepeats(regLog) => NoRepeats(QualifiedNames)

\* the tool calls of the response held by frame f
CallsOf(f) == IF f.response = None THEN <<>> ELSE f.response[1].tool_calls

\* frame f is at (or failed at) the dispatch of the call with index f.i
Dispatching(f) == f.i >= 1 /\ f.i <= Len(CallsOf(f))

\* C2: a tool call naming the qualified name of a descriptor whose
\* contributing server is still registered never fails with "Unknown server"
\* and is never sent to a connection other than the contributing one.
C2_RoutedToContributor ==
  \A s \in Slots :
    LET f == frames[s] IN
    Dispatching(f) =>
      \A k \in 1..Len(allFunctions) :
        (allFunctions[k].name = CallsOf(f)[f.i].name /\ BindingOf(allFunctions[k].origin) /= 0)
          => /\ ~(f.pc = "failed" /\ f.error = Some("Unknown server"))
             /\ \A n \in 1..Len(f.invocations) :
                   f.invocations[n].call = f.i
                     => f.invocations[n].client = allFunctions[k].origin

\* C7: a registration under a name that is already registered leaves the
\* server map and the flattened tool list unchanged (it fails instead).
C7_DuplicateLeavesRegistry ==
  [][ (Len(regLog') > Len(regLog) /\ MapHas(servers, regLog'[Len(regLog')]))
        => (servers' = servers /\ allFunctions' = allFunctions) ]_vars

\* ------------------------------------------------------------- C3 .. C10
\* the response processQuery answered from
LastResponse(f) == IF f.final /= None THEN f.final[1] ELSE f.response[1]

\* the history as the loop leaves it after the first `done` calls of the
\* response were dispatched: the seed, then one assistant/tool pair per call
PairsUpTo(f, done) ==
  /\ Len(f.messages) = 2 + 2 * done
  /\ \A k \in 1..done :
       LET a == f.messages[2 * k + 1]
           t == f.messages[2 * k + 2]
           c == f.invocations[k].result
       IN  /\ a.role = "assistant" /\ a.tool_calls = << CallsOf(f)[k] >>
           /\ t.role = "tool" /\ t.tool_call_id = Some(CallsOf(f)[k].id)
           /\ f.invocations[k].call = k
           /\ c /= None
           /\ c[1].type = "string" => t.content = Some(c[1].v)
           /\ c[1].type = "object" => t.content = Some(<<"[">> \o c[1].v \o <<"]">>)

C4_DirectAnswer ==
  \A s \in Slots :
    LET f == frames[s] IN
    (f.pc = "returned" /\ Len(CallsOf(f)) = 0) =>
      /\ Len(f.chats) = 1
      /\ f.invocations = <<>>
      /\ f.final = None
      /\ f.response[1].content /= None => f.answer = f.response[1].content
      /\ f.response[1].content = None => f.answer = Some(<<>>)

C4_Witness ==
  \E s \in Slots :
    /\ frames[s].pc = "returned" /\ Len(CallsOf(frames[s])) = 0
    /\ frames[s].answer = Some(<<"h", "i">>)
    /\ allFunctions /= <<>>

\* C5: after a response whose n >= 1 tool calls all dispatched, the history of
\* the next model call is the previous history followed by exactly 2n
\* messages: per call, in order, an assistant message carrying that single
\* call, then a tool message with that call's id and that call's result.
C5_HistoryPairs ==
  \A s \in Slots :
    LET f == frames[s] IN
    Len(f.chats) = 2 =>
      /\ SubSeq(f.chats[2].messages, 1, 2) = f.chats[1].messages
      /\ f.chats[2].messages = f.messages
      /\ PairsUpTo(f, Len(CallsOf(f)))

C5_Witness ==
  \E s \in Slots :
    LET f == frames[s] IN
    /\ f.pc = "awaitFinal" /\ Len(CallsOf(f)) = 2 /\ Len(f.messages) = 6
    /\ f.invocations[1].result /= f.invocations[2].result

\* C6: a tool call naming a qualified name absent from the registry fails the
\* query with the unknown-tool error, no callTool is issued for it, and the
\* history holds only the seed and the pairs of the calls dispatched before.
C6_UnknownTool ==
  \A s \in Slots :
    LET f == frames[s] IN
    (Dispatching(f) /\ FindFunction(CallsOf(f)[f.i].name) = 0) =>
      /\ f.pc = "failed"
      /\ f.error = Some("Unknown tool name")
      /\ \A n \in 1..Len(f.invocations) : f.invocations[n].call /= f.i
      /\ PairsUpTo(f, f.i - 1)

C6_Witness ==
  \E s \in Slots :
    LET f == frames[s] IN
    /\ f.pc = "failed" /\ f.error = Some("Unknown tool name")
    /\ f.i = 2 /\ Len(f.messages) = 4

\* what the dispatch of call f.i runs into, in the order the code tests it
UnknownToolAt(f) == FindFunction(CallsOf(f)[f.i].name) = 0
UnknownServerAt(f) ==
  /\ ~UnknownToolAt(f)
  /\ ~MapHas(servers, SplitFirst(CallsOf(f)[f.i].name))
BadArgumentsAt(f) ==
  /\ ~UnknownToolAt(f) /\ ~UnknownServerAt(f)
  /\ CallsOf(f)[f.i].arguments /= <<"{", "}">>

C8_Aborted(f) ==
  Dispatching(f) =>
    /\ f.pc \in {"awaitTool", "failed"}
    /\ UnknownToolAt(f) => f.pc = "failed" /\ f.error = Some("Unknown tool name")
    /\ UnknownServerAt(f) => f.pc = "failed" /\ f.error = Some("Unknown server")
    /\ BadArgumentsAt(f) =>
         /\ f.pc = "failed" /\ f.error = Some("SyntaxError")
         /\ \A n \in 1..Len(f.invocations) : f.invocations[n].call /= f.i
    /\ f.pc = "failed" =>
         /\ f.error /= None
         /\ f.answer = None
         /\ Len(f.chats) = 1 /\ f.final = None
         /\ \A n \in 1..Len(f.invocations) : f.invocations[n].call <= f.i
         /\ Cardinality({n \in 1..Len(f.invocations) : f.invocations[n].call = f.i}) <= 1
         /\ f.error = Some("ToolError") =>
              /\ Len(f.invocations) = f.i
              /\ f.invocations[f.i].result = None

\* C8: a failure while dispatching a tool call (unknown tool, unknown server,
\* unparseable arguments, callTool rejecting) fails the query with that error:
\* no later call of the response is dispatched, the failed call is not
\* retried, the model is not called again, no answer is returned, and a
\* failed invocation never resumes. Unparseable arguments issue no callTool.
C8_DispatchFailureAborts ==
  /\ [](\A s \in Slots : C8_Aborted(frames[s]))
  /\ [][\A s \in Slots :
          frames[s].pc = "failed" => (frames'[s] = frames[s] \/ frames'[s] = NoFrame)]_vars

C8_Witness ==
  \E s \in Slots :
    LET f == frames[s] IN
    /\ f.pc = "failed" /\ f.error = Some("SyntaxError")
    /\ f.i = 1 /\ Len(CallsOf(f)) = 2
    /\ FindFunction(CallsOf(f)[2].name) /= 0

\* close has been called on the connection of the k-th binding
CloseCalled(k) == k < closeIdx \/ (k = closeIdx /\ mainpc = "rejected")

\* C9: once main has left the query loop and the process has ended, close
\* was called on the connection of every binding of the registry, also when
\* one of the closes failed.
C9_AllClosedAfterLoop ==
  (mainpc \in {"exited", "rejected"} /\ closeIdx >= 1) =>
    \A k \in 1..Len(servers) : CloseCalled(k)

\* C10: every invocation starts from exactly [system prompt, user query];
\* its history only grows by appending; it holds no message of another query.
C10_Seeded(f) ==
  f.pc /= "free" =>
    /\ Len(f.messages) >= 2
    /\ f.messages[1].role = "system" /\ f.messages[1].content = Some(SystemPrompt)
    /\ f.messages[2].role = "user" /\ f.messages[2].content = f.query
    /\ f.chats[1].messages = SubSeq(f.messages, 1, 2)
    /\ \A m \in 1..Len(f.messages) : f.messages[m].q = f.q

IsPrefix(p, q) == Len(p) <= Len(q) /\ SubSeq(q, 1, Len(p)) = p

C10_FreshAppendOnlyHistory ==
  /\ [](\A s \in Slots : C10_Seeded(frames[s]))
  /\ [][\A s \in Slots :
          /\ (frames[s].pc = "free" /\ frames'[s].pc /= "free")
                => Len(frames'[s].messages) = 2
          /\ (frames[s].pc /= "free" /\ frames'[s].pc /= "free")
                => IsPrefix(frames[s].messages, frames'[s].messages)]_vars

\* a second query that has appended to its own seed
C10_Witness ==
  \E s \in Slots :
    /\ frames[s].q = 2 /\ Len(frames[s].messages) = 4

\* ------------------------------------------------------------ C11 .. C20
\* a step in which an iteration of registerServersFromConfig failed: a new
\* config key was taken up and no registration came of it
StartupFailure ==
  /\ mainpc = "register"
  /\ configNames' /= configNames /\ configNames \subseteq configNames'
  /\ regLog' = regLog

\* C11: startup is fail-fast. A failing connect or listTools of a configured
\* backend makes main reject at once; a rejected main never goes on, so the
\* query loop is never entered and no processQuery runs on the partial registry.
C11_FailFastStartup ==
  /\ [][StartupFailure => mainpc' = "rejected"]_vars
  /\ [][mainpc = "rejected" => (mainpc' = "rejected" /\ frames' = frames /\ queries' = queries)]_vars
  /\ []((mainpc = "rejected" /\ closeIdx = 0) =>
          (queries = 0 /\ \A s \in Slots : frames[s].pc = "free"))

\* startup aborted after one backend had registered
C11_Witness ==
  /\ mainpc = "rejected" /\ closeIdx = 0
  /\ Len(regLog) >= 1 /\ configNames /= {}
  /\ queries = 0

\* the invocations of frame f that were issued and have not come back
Pending(f) ==
  IF f.pc = "failed" THEN {}
  ELSE {n \in 1..Len(f.invocations) : f.invocations[n].result = None}

\* the operations of frame f in flight: a model call or pending invocations
InFlight(f) ==
  (IF f.pc \in {"awaitChat", "awaitFinal"} THEN 1 ELSE 0) + Cardinality(Pending(f))

\* C12: the tool calls of a response are invoked in the model's order, one at
\* a time: the n-th invocation serves the n-th call, it is issued only after
\* all earlier ones came back, and at most one model call or tool invocation
\* of the query is in flight.
C12_SequentialDispatch ==
  \A s \in Slots :
    LET f == frames[s] IN
    /\ \A n \in 1..Len(f.invocations) :
         /\ f.invocations[n].call = n
         /\ n < Len(f.invocations) => f.invocations[n].result /= None
    /\ InFlight(f) <= 1
    /\ f.pc = "awaitTool" => Pending(f) = {f.i} /\ Len(f.invocations) = f.i

\* the second call of a response is in flight after the first came back
C12_Witness ==
  \E s \in Slots :
    LET f == frames[s] IN
    /\ f.pc = "awaitTool" /\ f.i = 2
    /\ f.invocations[1].result /= None /\ f.invocations[2].result = None

\* the native name under which backend allFunctions[k].origin advertised the
\* tool that descriptor k was built from
NativeOf(k) ==
  LET c == allFunctions[k].origin
      pos == Cardinality({m \in 1..k : allFunctions[m].origin = c})
  IN  advertised[c][pos]

\* C13: each dispatched tool call causes exactly one callTool, on the owning
\* server, carrying the tool's native name as that server advertised it and
\* the arguments parsed from the call's payload.
C13_NativeNameForwarded ==
  \A s \in Slots :
    LET f == frames[s] IN
    /\ \A n \in 1..Len(f.invocations) :
         LET call == CallsOf(f)[f.invocations[n].call]
             k == FindFunction(call.name)
         IN  /\ k /= 0
             /\ f.invocations[n].client = allFunctions[k].origin
             /\ f.invocations[n].name = NativeOf(k)
             /\ Some(f.invocations[n].arguments) = JSONParse(call.arguments)
    /\ \A c \in 1..Len(CallsOf(f)) :
         Cardinality({n \in 1..Len(f.invocations) : f.invocations[n].call = c})
           = (IF c < f.i \/ (c = f.i /\ f.pc = "awaitTool") THEN 1 ELSE 0)

\* the tool requests a native provider answer holds, as tool calls
NativeToolRequests(res) ==
  IF llm = "gpt" THEN res.choices[1].message.tool_calls
  ELSE LET uses == SelectSeq(res.content, LAMBDA b : b.type = "tool_use")
       IN  [k \in 1..Len(uses) |->
              [id |-> uses[k].id, name |-> uses[k].name, arguments |-> uses[k].input]]

\* C14: under either adapter the tool calls of the choice handed to
\* processQuery are exactly the tool requests of the native answer, so a
\* response reports zero tool calls only if the model requested none.
C14_AdapterKeepsToolCalls ==
  \A s \in Slots :
    LET f == frames[s] IN
    /\ f.response /= None => f.response[1].tool_calls = NativeToolRequests(f.natives[1])
    /\ f.final /= None => f.final[1].tool_calls = NativeToolRequests(f.natives[2])

\* C15: no step of processQuery (start, model answer, tool result, failure)
\* changes the server map or the flattened tool list, and once registration
\* is over both stay as the last registration left them.
C15_QueriesLeaveRegistry ==
  /\ [][frames' /= frames => (servers' = servers /\ allFunctions' = allFunctions)]_vars
  /\ [][mainpc /= "register" => (servers' = servers /\ allFunctions' = allFunctions)]_vars
  /\ [](mainpc = "register" => \A s \in Slots : frames[s].pc = "free")

\* a second query failed after a tool was invoked, the first one had returned
C15_Witness ==
  /\ queries = 2
  /\ frames[1].pc = "failed"
  /\ Len(frames[1].invocations) >= 1
  /\ Len(allFunctions) >= 1

\* the response processQuery received carries tool calls and non-empty text
TextWithCalls(f) ==
  /\ f.response /= None
  /\ Len(f.response[1].tool_calls) >= 1
  /\ OrEmpty(f.response[1].content) /= <<>>

Suspended(f) == f.pc \in {"awaitChat", "awaitTool", "awaitFinal"}

\* every message of the sequence was created by invocation number q
OwnedBy(msgs, q) == \A k \in 1..Len(msgs) : msgs[k].q = q

\* C17: when processQuery invocations on one orchestrator overlap, each has
\* its own history: the invocations are distinct, every message in an
\* invocation's history and in each of its model calls was created by that
\* invocation, the history is its own seed followed by the pairs of its own
\* dispatched calls, its first model call offers the registry as
\* registration left it, and no step of any invocation changes the registry.
C17_OverlappingHistoriesApart ==
  /\ [](\A s \in Slots :
         LET f == frames[s] IN
         f.pc /= "free" =>
           /\ \A o \in Slots : (o /= s /\ frames[o].pc /= "free") => frames[o].q /= f.q
           /\ OwnedBy(f.messages, f.q)
           /\ \A c \in 1..Len(f.chats) : OwnedBy(f.chats[c].messages, f.q)
           /\ SubSeq(f.messages, 1, 2) = SeedMessages(f.query[1], f.q)
           /\ Len(f.messages) =
                2 + 2 * Cardinality({k \in 1..Len(f.invocations) : f.invocations[k].result /= None})
           /\ f.chats[1].tools = allFunctions)
  /\ [][\A s \in Slots :
         frames'[s] /= frames[s] =>
           /\ servers' = servers /\ allFunctions' = allFunctions
           /\ \A o \in Slots : (o /= s /\ frames[o].pc /= "free") => frames'[o] = frames[o]]_vars

\* the second invocation started while the first was suspended and has
\* dispatched its call; the first is still waiting for its tool
C17_Witness ==
  /\ frames[1].pc = "awaitTool" /\ Len(frames[1].messages) = 2
  /\ frames[2].pc = "awaitFinal" /\ Len(frames[2].messages) = 4
  /\ frames[1].q = 1 /\ frames[2].q = 2

\* C18: when the process has ended, every connection that a successful
\* registration opened (the first Len(regLog) connections) is closed, also
\* after a later backend failed during startup and also for the connection
\* of a binding that a second registration under the same name replaced.
C18_RegisteredConnectionsClosed ==
  mainpc \in {"exited", "rejected"} =>
    \A c \in 1..Len(regLog) : conns[c] = "closed"

\* the awaits an invocation may still have before it, at most
Rank(f) ==
  CASE f.pc = "awaitChat"  -> MaxCalls + 2
    [] f.pc = "awaitTool"  -> (Len(f.response[1].tool_calls) - f.i) + 2
    [] f.pc = "awaitFinal" -> 1
    [] OTHER               -> 0

\* C19: a query makes at most two provider calls and one dispatch round
\* (each call of the first response is invoked at most once, nothing of a
\* later response is invoked); every step of a suspended invocation lowers
\* the number of awaits it may still make; and, provided the awaited
\* provider calls and tool invocations return or fail, every invocation
\* ends, also when the provider requests tools in every response.
C19_QueryTerminates ==
  /\ [](\A s \in Slots :
         LET f == frames[s] IN
         /\ Len(f.chats) <= 2 /\ Len(f.natives) <= 2
         /\ f.response = None => f.invocations = <<>>
         /\ f.response /= None =>
              /\ Len(f.invocations) <= Len(f.response[1].tool_calls)
              /\ \A k \in 1..Len(f.invocations) : f.invocations[k].call = k
         /\ f.pc = "returned" => Len(f.natives) = Len(f.chats))
  /\ [][\A s \in Slots :
         (Suspended(frames[s]) /\ frames'[s] /= frames[s])
           => Rank(frames'[s]) < Rank(frames[s])]_vars
  /\ \A s \in Slots : (Suspended(frames[s]) ~> ~Suspended(frames[s]))

\* both responses of a query requested tools: two calls were dispatched in
\* the one round, the request of the second response was not, and the query
\* returned after two provider calls
C19_Witness ==
  \E s \in Slots :
    LET f == frames[s] IN
    /\ f.pc = "returned" /\ Len(f.chats) = 2
    /\ Len(f.response[1].tool_calls) = 2 /\ Len(f.invocations) = 2
    /\ Len(f.final[1].tool_calls) = 1

\* the descriptor lists of the first n bindings of the server map, concatenated
RECURSIVE FunctionsOfBindings(_)
FunctionsOfBindings(n) ==
  IF n = 0 THEN <<>> ELSE FunctionsOfBindings(n - 1) \o servers[n].functions

\* C20: in every reachable state the flattened tool list is the
\* concatenation, in registration order, of the descriptor lists of the
\* bindings in the server map, after any sequence of registrations,
\* repeated names included.
C20_FlattenedIsConcatenation ==
  allFunctions = FunctionsOfBindings(Len(servers))
====
